---- MODULE Spec2Model ----
(***************************************************************************)
(* Model of the text layout engine of ezdxf (src/ezdxf/tools/text_layout). *)
(*                                                                         *)
(* Python values:                                                          *)
(*   - an Optional value is a tuple of length 0 (None) or 1 (the value);   *)
(*   - a float is an integer; every length is drawn from the even numbers  *)
(*     so that the halves taken by insert_location are exact;              *)
(*   - the outcome of a call is a record [exc, val]: exc names the raised  *)
(*     exception ("" for a normal return), val is the returned value.      *)
(***************************************************************************)
EXTENDS Integers, Sequences, FiniteSets, TLC

\* ------------------------------------------------------------------ bounds

\* resolve_margins is applied to sequences over 0..MaxMargin
MaxMargin == 2
\* insert_location is applied to widths 0, 2, .. 2 * MaxHalfWidth
MaxHalfWidth == 5
\* insert_location is applied to heights 0, 2, .. 2 * MaxHalfHeight
MaxHalfHeight == 10
\* normalize_cells is applied to sequences of at most MaxCells cells
MaxCells == 4
\* at most MaxColumns columns are added to the layout
MaxColumns == 2
\* at most MaxParagraphs FlowText objects are constructed
MaxParagraphs == 1
\* at most MaxBuildParagraphs FlowText objects are constructed while only
\* building calls are made
MaxBuildParagraphs == 3
\* the largest width and minimum width of a glue cell
MaxGlueWidth == 3
\* the most destroy() calls made on the Dictionary object
MaxDestroyCalls == 2

\* --------------------------------------------------------- Python values

None == <<>>
Some(v) == <<v>>
IsNone(o) == o = <<>>
Val(o) == o[1]

\* outcome of a call that returned v
Return(v) == [exc |-> "", val |-> v]
\* outcome of a call that raised the exception e
Raise(e) == [exc |-> e, val |-> None]
\* outcome of a call that has not been made yet
Pending == [exc |-> "pending", val |-> None]

Max(a, b) == IF a >= b THEN a ELSE b

\* ------------------------------------------------------------ variables

VARIABLES
    margins,     \* the argument of resolve_margins (Optional sequence)
    resolved,    \* the outcome of resolve_margins(margins)
    anchor,      \* the arguments <<align, width, height>> of insert_location
    location,    \* the outcome of insert_location(align, width, height)
    cells,       \* the argument of normalize_cells (sequence of cells)
    normalized,  \* the outcome of normalize_cells(cells)
    layout,      \* the Layout object, with its columns and their paragraphs
    pool,        \* the FlowText objects the caller has constructed
    gen,         \* the generator the last call of render() returned
    last,        \* the last call made on the containers and its outcome
    glue,        \* a Glue cell (Space, SoftHyphen, NonBreakingSpace or Tab)
    glue_last,   \* the last call made on the glue cell and its outcome
    xdict,       \* ExtensionDict._xdict: None, a handle or the Dictionary
    dictionary,  \* the Dictionary object the extension dictionary stands for
    xdict_last   \* the last call made on the extension dictionary

mvars == <<margins, resolved>>
avars == <<anchor, location>>
nvars == <<cells, normalized>>
cvars == <<layout, pool, gen, last>>
gvars == <<glue, glue_last>>
xvars == <<xdict, dictionary, xdict_last>>
pure == <<margins, resolved, anchor, location, cells, normalized,
          glue, glue_last, xdict, dictionary, xdict_last>>
vars == <<margins, resolved, anchor, location, cells, normalized,
          layout, pool, gen, last, glue, glue_last,
          xdict, dictionary, xdict_last>>

\* ------------------------------------------------------ resolve_margins

\* mutant of resolve_margins: the 3 value form takes left from top
resolve_margins_LeftFromTop(m) ==
    IF IsNone(m) THEN Some(<<0, 0, 0, 0>>)
    ELSE LET s == Val(m)
             count == Len(s)
         IN  IF count = 4 THEN Some(<<s[1], s[2], s[3], s[4]>>)
             ELSE IF count = 3 THEN Some(<<s[1], s[2], s[3], s[1]>>)
             ELSE IF count = 2 THEN Some(<<s[1], s[2], s[1], s[2]>>)
             ELSE IF count = 1 THEN Some(<<s[1], s[1], s[1], s[1]>>)
             ELSE None

\* resolve_margins(margins): (top, right, bottom, left), or None when no
\* branch is taken (the function then ends without a return statement)
resolve_margins(m) ==
    IF IsNone(m) THEN Some(<<0, 0, 0, 0>>)
    ELSE LET s == Val(m)
             count == Len(s)
         IN  IF count = 4 THEN Some(<<s[1], s[2], s[3], s[4]>>)
             ELSE IF count = 3 THEN Some(<<s[1], s[2], s[3], s[2]>>)
             ELSE IF count = 2 THEN Some(<<s[1], s[2], s[1], s[2]>>)
             ELSE IF count = 1 THEN Some(<<s[1], s[1], s[1], s[1]>>)
             ELSE None

\* the sequences of 0 to 4 margin values
MarginSeqs == UNION {[1..n -> 0..MaxMargin] : n \in 0..4}
\* the margin arguments: absent, or a sequence of 0 to 4 values
MarginArgs == {None} \cup {Some(s) : s \in MarginSeqs}

MarginsInit ==
    /\ margins \in MarginArgs
    /\ resolved = Pending

\* the caller evaluates resolve_margins(margins)
ResolveMargins ==
    /\ resolved = Pending
    /\ resolved' = Return(resolve_margins(margins))
    /\ UNCHANGED <<margins, avars, nvars, cvars, gvars, xvars>>

\* ------------------------------------------------------ insert_location

\* mutant of insert_location: align 5 is handled like align 4
insert_location_MiddleLeft(align, width, height) ==
    LET center == width \div 2
        middle == height \div 2
    IN  CASE align = 2 -> <<-center, 0>>
          [] align = 3 -> <<-width, 0>>
          [] align = 4 -> <<0, middle>>
          [] align = 5 -> <<0, middle>>
          [] align = 6 -> <<-width, middle>>
          [] align = 7 -> <<0, height>>
          [] align = 8 -> <<-center, height>>
          [] align = 9 -> <<-width, height>>
          [] OTHER -> <<0, 0>>

\* insert_location(align, width, height): the offset (left, top); width and
\* height are even, so width / 2 and height / 2 are exact
insert_location(align, width, height) ==
    LET center == width \div 2
        middle == height \div 2
    IN  CASE align = 2 -> <<-center, 0>>
          [] align = 3 -> <<-width, 0>>
          [] align = 4 -> <<0, middle>>
          [] align = 5 -> <<-center, middle>>
          [] align = 6 -> <<-width, middle>>
          [] align = 7 -> <<0, height>>
          [] align = 8 -> <<-center, height>>
          [] align = 9 -> <<-width, height>>
          [] OTHER -> <<0, 0>>

\* the anchor codes tried: the nine codes and one code on either side
AlignArgs == 0..10
WidthArgs == {2 * k : k \in 0..MaxHalfWidth}
HeightArgs == {2 * k : k \in 0..MaxHalfHeight}

AnchorInit ==
    /\ anchor \in AlignArgs \X WidthArgs \X HeightArgs
    /\ location = Pending

\* the caller evaluates insert_location(align, width, height)
InsertLocation ==
    /\ location = Pending
    /\ location' = Return(insert_location(anchor[1], anchor[2], anchor[3]))
    /\ UNCHANGED <<anchor, mvars, nvars, cvars, gvars, xvars>>

\* ------------------------------------------------------ normalize_cells

\* the classes _content holds
content_types == {"Text", "Fraction"}
\* the classes _glue holds
glue_types == {"Space", "NonBreakingSpace", "SoftHyphen", "Tab"}
\* the cell classes: content, glue, and Leading (the line separator of the
\* module's documentation), a cell that is in neither set
CellTypes == content_types \cup glue_types \cup {"Leading"}

\* a cell is [type, id]: its class and its identity (the position it had in
\* the sequence the caller built)
Cell(t, i) == [type |-> t, id |-> i]

\* mutant of peek: the class of the cell two places after cells[index]
peek_TwoAhead(cs, index) ==
    IF index + 2 <= Len(cs) THEN cs[index + 2].type ELSE "None"

\* peek(): the class of the cell after cells[index], None past the end
peek(cs, index) ==
    IF index + 1 <= Len(cs) THEN cs[index + 1].type ELSE "None"

\* mutant of NormalizeLoop: content after content is appended, not refused
RECURSIVE NormalizeLoop_NoRaise(_, _, _, _)
NormalizeLoop_NoRaise(cs, index, prev, content) ==
    IF index > Len(cs) THEN Return(content)
    ELSE LET cell == cs[index]
             current == cell.type
         IN  IF /\ current = "SoftHyphen"
                /\ \/ prev = "SoftHyphen"
                   \/ prev \notin content_types
                   \/ peek(cs, index) \notin content_types
             THEN NormalizeLoop_NoRaise(cs, index + 1, prev, content)
             ELSE NormalizeLoop_NoRaise(cs, index + 1, current,
                                        Append(content, cell))

\* mutant of NormalizeLoop: prev is set also for a soft hyphen that is dropped
RECURSIVE NormalizeLoop_PrevOnDrop(_, _, _, _)
NormalizeLoop_PrevOnDrop(cs, index, prev, content) ==
    IF index > Len(cs) THEN Return(content)
    ELSE LET cell == cs[index]
             current == cell.type
         IN  IF current \in content_types /\ prev \in content_types
             THEN Raise("ValueError")
             ELSE IF /\ current = "SoftHyphen"
                     /\ \/ prev = "SoftHyphen"
                        \/ prev \notin content_types
                        \/ peek(cs, index) \notin content_types
             THEN NormalizeLoop_PrevOnDrop(cs, index + 1, current, content)
             ELSE NormalizeLoop_PrevOnDrop(cs, index + 1, current,
                                           Append(content, cell))

\* the for loop of normalize_cells from cells[index] on: prev is the class
\* of the last cell kept, content the cells kept so far
RECURSIVE NormalizeLoop(_, _, _, _)
NormalizeLoop(cs, index, prev, content) ==
    IF index > Len(cs) THEN Return(content)
    ELSE LET cell == cs[index]
             current == cell.type
         IN  IF current \in content_types /\ prev \in content_types
             THEN Raise("ValueError")
             ELSE IF /\ current = "SoftHyphen"
                     /\ \/ prev = "SoftHyphen"
                        \/ prev \notin content_types
                        \/ peek(cs, index) \notin content_types
             THEN NormalizeLoop(cs, index + 1, prev, content)
             ELSE NormalizeLoop(cs, index + 1, current, Append(content, cell))

\* mutant of PopPendingGlue: pending glue is not removed
PopPendingGlue_Never(content) ==
    content

\* mutant of PopPendingGlue: only one pending glue cell is removed
PopPendingGlue_Once(content) ==
    IF content # <<>> /\ content[Len(content)].type \in glue_types
    THEN SubSeq(content, 1, Len(content) - 1)
    ELSE content

\* the while loop of normalize_cells: pops the glue at the end of content
RECURSIVE PopPendingGlue(_)
PopPendingGlue(content) ==
    IF content # <<>> /\ content[Len(content)].type \in glue_types
    THEN PopPendingGlue(SubSeq(content, 1, Len(content) - 1))
    ELSE content

\* normalize_cells(cells): the outcome, ValueError or the list returned
normalize_cells(cs) ==
    LET loop == NormalizeLoop(cs, 1, "None", <<>>)
    IN  IF loop.exc # "" THEN loop
        ELSE Return(PopPendingGlue(loop.val))

\* the cell sequences of length n, each cell with its position as identity
CellSeqs(n) == {[i \in 1..n |-> Cell(ts[i], i)] : ts \in [1..n -> CellTypes]}
CellArgs == UNION {CellSeqs(n) : n \in 0..MaxCells}

NormalizeInit ==
    /\ cells \in CellArgs
    /\ normalized = Pending

\* the caller evaluates normalize_cells(cells)
NormalizeCells ==
    /\ normalized = Pending
    /\ normalized' = normalize_cells(cells)
    /\ UNCHANGED <<cells, mvars, avars, cvars, gvars, xvars>>

\* ------------------------------------------------------------ containers

\* Container.__init__ sets final_x, final_y, content_width, content_height,
\* margins and render; width is always given as a number, height is
\* Optional, render is an Optional renderer

\* FlowText.__init__ for an alignment in 0..4: no raw cells, no lines
FlowText(width, align, m, render) ==
    [cls |-> "FlowText", final_x |-> None, final_y |-> None,
     content_width |-> width, content_height |-> None,
     margins |-> resolve_margins(m), render |-> render,
     align |-> align, cells |-> <<>>, lines |-> <<>>]

\* mutant of FlowTextInit: the alignment 5 is accepted
FlowTextInit_UpperInclusive(width, align, m, render) ==
    IF ~(0 <= align /\ align <= 5) THEN Raise("ValueError")
    ELSE Return(FlowText(width, align, m, render))

\* FlowText.__init__: the outcome of the constructor call for an integer
\* align (int(align) is align): ValueError unless 0 <= align < 5
FlowTextInit(width, align, m, render) ==
    IF ~(0 <= align /\ align < 5) THEN Raise("ValueError")
    ELSE Return(FlowText(width, align, m, render))

\* mutant of resize: the width is taken as given
resize_Unclamped(g, width) == [g EXCEPT !.width = width]

\* Glue.resize
resize(g, width) == [g EXCEPT !.width = Max(width, g.min_width)]

\* Glue.__init__ for the glue class t (Space, SoftHyphen, NonBreakingSpace
\* or Tab)
Glue(t, width, min_width) ==
    resize([type |-> t, min_width |-> min_width, width |-> 0], width)

\* Glue.total_width
Glue_total_width(g) == g.width

\* Glue.total_height
Glue_total_height(g) == 0

\* NonBreakingSpace.to_space
to_space(g) == Glue("Space", g.width, g.min_width)

\* ContentCell.__init__ for the content class t (Text or Fraction)
ContentCell(t, width, height, renderer) ==
    [type |-> t, final_x |-> None, final_y |-> None,
     width |-> width, height |-> height, renderer |-> renderer]

\* FlowText.append_content
append_content(p, content) == [p EXCEPT !.cells = @ \o content]

\* FlowText.distribute_content: [obj, exc, val]; the body is `pass`, the
\* paragraph is left as it is and None is returned
distribute_content(p, height) == [obj |-> p, exc |-> "", val |-> None]

\* Column.__init__: a container with a gutter and no paragraphs
Column(width, height, gutter, m, render) ==
    [cls |-> "Column", final_x |-> None, final_y |-> None,
     content_width |-> width, content_height |-> height,
     margins |-> resolve_margins(m), render |-> render,
     gutter |-> gutter, paragraphs |-> <<>>]

\* Layout.__init__: a container with no columns and the cursor at column 0
Layout(width, height, m, render) ==
    [cls |-> "Layout", final_x |-> None, final_y |-> None,
     content_width |-> width, content_height |-> height,
     margins |-> resolve_margins(m), render |-> render,
     reference_column_width |-> width, current_column |-> 0,
     columns |-> <<>>]

\* Container.is_placed
is_placed(o) == ~IsNone(o.final_x) /\ ~IsNone(o.final_y)

\* Container.final_location: the outcome
final_location(o) ==
    IF ~is_placed(o) THEN Raise("ValueError")
    ELSE Return(<<Val(o.final_x), Val(o.final_y)>>)

\* the margin properties; self._margins[k] raises TypeError when
\* self._margins is None, and these are evaluated only where it is not
top_margin(o) == Val(o.margins)[1]
right_margin(o) == Val(o.margins)[2]
bottom_margin(o) == Val(o.margins)[3]
left_margin(o) == Val(o.margins)[4]

\* Container.has_flex_height
has_flex_height(o) == IsNone(o.content_height)

\* the iterator of a container: columns, paragraphs or lines
Children(o) ==
    CASE o.cls = "Layout" -> o.columns
      [] o.cls = "Column" -> o.paragraphs
      [] OTHER -> o.lines

\* whether evaluating total_width raises no TypeError: the margins of the
\* container, and of every column of a layout, are subscriptable
RECURSIVE WidthDefined(_)
WidthDefined(o) ==
    /\ ~IsNone(o.margins)
    /\ o.cls = "Layout" =>
           \A i \in 1..Len(o.columns) : WidthDefined(o.columns[i])

\* whether evaluating total_height raises no TypeError: as for the width,
\* and a flexible column sums the total heights of its paragraphs
RECURSIVE HeightDefined(_)
HeightDefined(o) ==
    /\ ~IsNone(o.margins)
    /\ o.cls = "Layout" =>
           \A i \in 1..Len(o.columns) : HeightDefined(o.columns[i])
    /\ (o.cls = "Column" /\ has_flex_height(o)) =>
           \A i \in 1..Len(o.paragraphs) : HeightDefined(o.paragraphs[i])

RECURSIVE content_width(_), content_height(_), total_width(_), total_height(_)

\* sum(f(b) for b in boxes[i:]) for f = total_height
RECURSIVE SumTotalHeight(_, _)
SumTotalHeight(boxes, i) ==
    IF i > Len(boxes) THEN 0
    ELSE total_height(boxes[i]) + SumTotalHeight(boxes, i + 1)

\* Column.used_content_height
used_content_height(c) == SumTotalHeight(c.paragraphs, 1)

\* Layout._calculate_content_width from column i on
RECURSIVE CalculateContentWidth(_, _)
CalculateContentWidth(columns, i) ==
    IF i > Len(columns) THEN 0
    ELSE IF i = Len(columns) THEN total_width(columns[i])
    ELSE total_width(columns[i]) + columns[i].gutter
         + CalculateContentWidth(columns, i + 1)

\* Layout._calculate_content_height from column i on (a maximum over at
\* least one column)
RECURSIVE CalculateContentHeight(_, _)
CalculateContentHeight(columns, i) ==
    IF i = Len(columns) THEN total_height(columns[i])
    ELSE Max(total_height(columns[i]), CalculateContentHeight(columns, i + 1))

\* mutant of content_width: a layout reports its explicit width
content_width_Explicit(o) ==
    o.content_width

\* the content_width property: Layout.content_width for a layout,
\* Container.content_width otherwise
content_width(o) ==
    IF o.cls = "Layout" /\ o.columns # <<>>
    THEN CalculateContentWidth(o.columns, 1)
    ELSE o.content_width

\* the content_height property: Layout.content_height, Column.content_height
\* or Container.content_height
content_height(o) ==
    CASE o.cls = "Layout" /\ o.columns # <<>> ->
             CalculateContentHeight(o.columns, 1)
      [] o.cls = "Column" /\ IsNone(o.content_height) ->
             used_content_height(o)
      [] OTHER ->
             IF IsNone(o.content_height) THEN 0 ELSE Val(o.content_height)

\* Container.total_width
total_width(o) == content_width(o) + right_margin(o) + left_margin(o)

\* Container.total_height
total_height(o) == content_height(o) + top_margin(o) + bottom_margin(o)

\* Column.has_free_space
has_free_space(c) ==
    IF IsNone(c.content_height) THEN TRUE
    ELSE used_content_height(c) < Val(c.content_height)

\* --------------------------------------------------------------- placing

\* o with its children (columns, paragraphs or lines) replaced
WithChildren(o, children) ==
    CASE o.cls = "Layout" -> [o EXCEPT !.columns = children]
      [] o.cls = "Column" -> [o EXCEPT !.paragraphs = children]
      [] OTHER -> [o EXCEPT !.lines = children]

\* place and place_content return [obj, exc]: the object as the call leaves
\* it and the exception raised ("" for none); an exception leaves the fields
\* set before it was raised
RECURSIVE place(_, _, _), place_content(_), PlaceChildren(_, _, _, _, _)

\* the for loop of place_content from child i on, the cursor at (x, y):
\* columns advance x by total_width + gutter, paragraphs and lines lower y
\* by total_height
PlaceChildren(children, i, x, y, horizontal) ==
    IF i > Len(children) THEN [obj |-> children, exc |-> ""]
    ELSE LET r == place(children[i], x, y)
             placed == [children EXCEPT ![i] = r.obj]
         IN  IF r.exc # "" THEN [obj |-> placed, exc |-> r.exc]
             ELSE IF horizontal
             THEN PlaceChildren(placed, i + 1,
                                x + total_width(r.obj) + r.obj.gutter, y, TRUE)
             ELSE PlaceChildren(placed, i + 1,
                                x, y - total_height(r.obj), FALSE)

\* mutant of place_content: the children start at the anchor, the left and
\* top margins are not applied
place_content_NoMargins(o) ==
    IF ~is_placed(o) THEN [obj |-> o, exc |-> "ValueError"]
    ELSE IF IsNone(o.margins) THEN [obj |-> o, exc |-> "TypeError"]
    ELSE LET r == PlaceChildren(Children(o), 1, Val(o.final_x),
                                Val(o.final_y), o.cls = "Layout")
         IN  [obj |-> WithChildren(o, r.obj), exc |-> r.exc]

\* FlowText.place_content, Column.place_content and Layout.place_content:
\* final_location(), the cursor moved in by the left and top margin (a
\* TypeError when the margins are None), then the loop over the children
place_content(o) ==
    IF ~is_placed(o) THEN [obj |-> o, exc |-> "ValueError"]
    ELSE IF IsNone(o.margins) THEN [obj |-> o, exc |-> "TypeError"]
    ELSE LET r == PlaceChildren(Children(o), 1,
                                Val(o.final_x) + left_margin(o),
                                Val(o.final_y) - top_margin(o),
                                o.cls = "Layout")
         IN  [obj |-> WithChildren(o, r.obj), exc |-> r.exc]

\* mutant of place: a container that is already placed is moved by (x, y)
place_Accumulating(o, x, y) ==
    place_content(
        [o EXCEPT !.final_x = Some(x + (IF IsNone(@) THEN 0 ELSE Val(@))),
                  !.final_y = Some(y + (IF IsNone(@) THEN 0 ELSE Val(@)))])

\* mutant of place: the anchor is recorded with x and y swapped
place_Swapped(o, x, y) ==
    place_content([o EXCEPT !.final_x = Some(y), !.final_y = Some(x)])

\* Container.place
place(o, x, y) ==
    place_content([o EXCEPT !.final_x = Some(x), !.final_y = Some(y)])

\* Layout.place: total_width and total_height (a TypeError when a margin
\* tuple they read is None), the anchor offset, then Container.place
layout_place(l, x, y, align) ==
    IF ~WidthDefined(l) \/ ~HeightDefined(l)
    THEN [obj |-> l, exc |-> "TypeError"]
    ELSE LET loc == insert_location(align, total_width(l), total_height(l))
         IN  place(l, x + loc[1], y + loc[2])

\* ------------------------------------------------- columns and paragraphs

\* Layout.add_column: a width of None or 0 stands for the reference width
add_column(l, width, height, gutter, m, render) ==
    LET w == IF IsNone(width) \/ Val(width) = 0
             THEN l.reference_column_width ELSE Val(width)
    IN  [l EXCEPT !.columns = Append(@, Column(w, height, gutter, m, render))]

\* p.freeze(): no class of the module defines freeze, the attribute lookup
\* raises AttributeError
freeze(p) == Raise("AttributeError")

\* self._paragraphs.extend(p.freeze() for p in paragraphs) from paragraph i
\* on: the items are appended one by one until freeze raises
RECURSIVE Extend(_, _, _)
Extend(own, paragraphs, i) ==
    IF i > Len(paragraphs) THEN [obj |-> own, exc |-> ""]
    ELSE LET f == freeze(paragraphs[i])
         IN  IF f.exc # "" THEN [obj |-> own, exc |-> f.exc]
             ELSE Extend(Append(own, f.val), paragraphs, i + 1)

\* Column.append_paragraphs: [obj, exc, val], val the remainder returned; a
\* flexible column extends its list, a column of fixed height does nothing
column_append_paragraphs(c, paragraphs) ==
    IF has_flex_height(c)
    THEN LET e == Extend(c.paragraphs, paragraphs, 1)
         IN  [obj |-> [c EXCEPT !.paragraphs = e.obj], exc |-> e.exc,
              val |-> <<>>]
    ELSE [obj |-> c, exc |-> "", val |-> <<>>]

\* Column.clone_empty: a column built from the properties of c
clone_empty(c) ==
    Column(content_width(c), Some(content_height(c)), c.gutter,
           Some(<<top_margin(c), right_margin(c),
                  bottom_margin(c), left_margin(c)>>),
           c.render)

\* mutant of CreateColumns: the cursor is set before the column is made
RECURSIVE CreateColumns_CursorFirst(_, _)
CreateColumns_CursorFirst(l, remainer) ==
    IF remainer = <<>> THEN [obj |-> l, exc |-> ""]
    ELSE IF Len(l.columns) = 0
    THEN [obj |-> [l EXCEPT !.current_column = Len(l.columns) - 1],
          exc |-> "ValueError"]
    ELSE IF ~WidthDefined(l.columns[Len(l.columns)])
            \/ ~HeightDefined(l.columns[Len(l.columns)])
    THEN [obj |-> l, exc |-> "TypeError"]
    ELSE LET empty == clone_empty(l.columns[Len(l.columns)])
             r == column_append_paragraphs(empty, remainer)
             l1 == [l EXCEPT !.columns = Append(@, r.obj),
                             !.current_column = Len(l.columns)]
         IN  IF r.exc # "" THEN [obj |-> l1, exc |-> r.exc]
             ELSE IF l1.current_column > 100
             THEN [obj |-> l1, exc |-> "ValueError"]
             ELSE CreateColumns_CursorFirst(l1, r.val)

\* the second loop of Layout.append_paragraphs: a cloned column for the
\* remainder, as long as there is one
RECURSIVE CreateColumns(_, _)
CreateColumns(l, remainer) ==
    IF remainer = <<>> THEN [obj |-> l, exc |-> ""]
    ELSE IF Len(l.columns) = 0 THEN [obj |-> l, exc |-> "ValueError"]
    ELSE IF ~WidthDefined(l.columns[Len(l.columns)])
            \/ ~HeightDefined(l.columns[Len(l.columns)])
    THEN [obj |-> l, exc |-> "TypeError"]
    ELSE LET empty == clone_empty(l.columns[Len(l.columns)])
             r == column_append_paragraphs(empty, remainer)
             l1 == [l EXCEPT !.columns = Append(@, r.obj),
                             !.current_column = Len(l.columns)]
         IN  IF r.exc # "" THEN [obj |-> l1, exc |-> r.exc]
             ELSE IF l1.current_column > 100
             THEN [obj |-> l1, exc |-> "ValueError"]
             ELSE CreateColumns(l1, r.val)

\* the first loop of Layout.append_paragraphs: the columns from the cursor
\* on take the remainder, then CreateColumns
RECURSIVE FillColumns(_, _)
FillColumns(l, remainer) ==
    IF l.current_column < Len(l.columns)
    THEN LET k == l.current_column + 1
             r == column_append_paragraphs(l.columns[k], remainer)
             l1 == [l EXCEPT !.columns[k] = r.obj]
         IN  IF r.exc # "" THEN [obj |-> l1, exc |-> r.exc]
             ELSE IF Len(r.val) = 0 THEN [obj |-> l1, exc |-> ""]
             ELSE FillColumns([l1 EXCEPT !.current_column = @ + 1], r.val)
    ELSE CreateColumns(l, remainer)

\* Layout.append_paragraphs: [obj, exc]
layout_append_paragraphs(l, paragraphs) == FillColumns(l, paragraphs)

\* ------------------------------------------------------------- rendering

\* a reference to a container: the layout, column i of the layout,
\* paragraph j of column i, or object i of the pool
Ref(kind, i, j) == [kind |-> kind, i |-> i, j |-> j]
LayoutRef == Ref("layout", 0, 0)

\* the objects: the layout with all it holds, and the pool
World(l, p) == [layout |-> l, pool |-> p]

\* the container a reference names
Get(W, r) ==
    CASE r.kind = "layout" -> W.layout
      [] r.kind = "column" -> W.layout.columns[r.i]
      [] r.kind = "paragraph" -> W.layout.columns[r.i].paragraphs[r.j]
      [] r.kind = "pool" -> W.pool[r.i]

\* the objects with the container a reference names replaced by o
Put(W, r, o) ==
    CASE r.kind = "layout" -> [W EXCEPT !.layout = o]
      [] r.kind = "column" -> [W EXCEPT !.layout.columns[r.i] = o]
      [] r.kind = "paragraph" ->
             [W EXCEPT !.layout.columns[r.i].paragraphs[r.j] = o]
      [] r.kind = "pool" -> [W EXCEPT !.pool[r.i] = o]

\* the k-th item of iter(self): a column of the layout or a paragraph of a
\* column (a FlowText never holds a line: Line is abstract and
\* distribute_content creates none)
Child(r, k) ==
    IF r.kind = "layout" THEN Ref("column", k, 0)
    ELSE Ref("paragraph", r.i, k)

\* a frame of the generator: the container whose render() it runs, where it
\* is ("start": not begun; "place": before place_content; "content": in the
\* loop of render_content) and the number of children taken from iter(self)
Frame(r, pc, idx) == [ref |-> r, pc |-> pc, idx |-> idx]

\* mutant of render_background: the bounds of the content, without margins
render_background_ContentOnly(r, o) ==
    [ref |-> r, renderer |-> Val(o.render),
     left |-> Val(o.final_x),
     bottom |-> Val(o.final_y) - content_height(o),
     top |-> Val(o.final_y),
     right |-> Val(o.final_x) + content_width(o)]

\* Container.render_background: the call of the renderer for the bounds of o
render_background(r, o) ==
    [ref |-> r, renderer |-> Val(o.render),
     left |-> Val(o.final_x),
     bottom |-> Val(o.final_y) - total_height(o),
     top |-> Val(o.final_y),
     right |-> Val(o.final_x) + total_width(o)]

\* one next() on the generator of Container.render: runs the frames from the
\* innermost one until a background is yielded, an exception is raised or
\* the outermost frame ends; returns [W, frames, exc, val]
RECURSIVE Resume(_, _)
Resume(W, frames) ==
    LET n == Len(frames)
        f == frames[n]
        o == Get(W, f.ref)
    IN  CASE f.pc = "start" ->
                 IF ~is_placed(o)
                 THEN [W |-> W, frames |-> <<>>, exc |-> "ValueError",
                       val |-> None]
                 ELSE IF IsNone(o.render)
                 THEN Resume(W, [frames EXCEPT ![n].pc = "place"])
                 ELSE IF ~HeightDefined(o) \/ ~WidthDefined(o)
                 THEN [W |-> W, frames |-> <<>>, exc |-> "TypeError",
                       val |-> None]
                 ELSE [W |-> W, frames |-> [frames EXCEPT ![n].pc = "place"],
                       exc |-> "", val |-> Some(render_background(f.ref, o))]
          [] f.pc = "place" ->
                 LET r == place_content(o)
                     W1 == Put(W, f.ref, r.obj)
                 IN  IF r.exc # ""
                     THEN [W |-> W1, frames |-> <<>>, exc |-> r.exc,
                           val |-> None]
                     ELSE Resume(W1, [frames EXCEPT ![n].pc = "content"])
          [] f.pc = "content" ->
                 IF f.idx < Len(Children(o))
                 THEN Resume(W, Append([frames EXCEPT ![n].idx = f.idx + 1],
                                       Frame(Child(f.ref, f.idx + 1),
                                             "start", 0)))
                 ELSE IF n = 1
                 THEN [W |-> W, frames |-> <<>>, exc |-> "StopIteration",
                       val |-> None]
                 ELSE Resume(W, SubSeq(frames, 1, n - 1))

\* ------------------------------------------------------------ operations

\* the record of a call: the operation, the container it was made on, its
\* arguments, the exception it raised ("" for none) and the value returned
Call(op, r, args, exc, val) ==
    [op |-> op, ref |-> r, args |-> args, exc |-> exc, val |-> val]

\* the arguments <<width, height, margins, render>> a Layout is built with
LayoutArgs ==
    {<<4, None, None, None>>,
     <<8, Some(6), Some(<<2, 4, 6, 8>>), Some("frame")>>}

\* the arguments <<width, height, gutter, margins, render>> of add_column
ColumnArgs ==
    {<<None, None, 0, None, None>>,
     <<Some(6), Some(10), 2, Some(<<2, 4>>), Some("fill")>>,
     <<Some(0), None, 2, Some(<<>>), None>>}

\* the arguments <<width, align, margins, render>> a FlowText is built with
FlowTextArgs ==
    {<<6, 4, Some(<<2>>), Some("text")>>,
     <<4, 1, Some(<<>>), None>>}

\* the insertion points and anchor codes of place
PlacePoints == {<<2, 4>>}
PlaceAligns == {0, 1, 9}

\* the containers the caller holds: the layout, the columns add_column
\* returned, the FlowText objects it constructed
Refs ==
    {LayoutRef} \cup {Ref("column", i, 0) : i \in 1..Len(layout.columns)}
                \cup {Ref("pool", i, 0) : i \in 1..Len(pool)}

\* the generator record after a container was placed: the values an earlier
\* generator yielded are no longer those of the same placement
Replaced(g) == IF IsNone(g) THEN g ELSE Some([Val(g) EXCEPT !.prev = None])

\* the generator has been made and no next() has run yet
Unstarted(g) == Len(g.frames) = 1 /\ g.frames[1].pc = "start"
\* the generator has begun and not ended
Draining(g) == g.frames # <<>> /\ ~Unstarted(g)

\* The calls are made in the order the engine is used in: the layout is
\* built (add_column, FlowText, append_paragraphs) before render() is first
\* called; place and final_location are called while no generator has run;
\* a generator that has begun is drained before the next call is made.
Building == IsNone(gen)
Quiet == IF IsNone(gen) THEN TRUE ELSE Unstarted(Val(gen))
NotDraining == IF IsNone(gen) THEN TRUE ELSE ~Draining(Val(gen))

ContainersInit ==
    /\ \E a \in LayoutArgs : layout = Layout(a[1], a[2], a[3], a[4])
    /\ pool = <<>>
    /\ gen = None
    /\ last = Call("init", LayoutRef, <<>>, "", None)

\* layout.add_column(width, height, gutter, margins, render)
AddColumn ==
    /\ Building
    /\ Len(layout.columns) < MaxColumns
    /\ \E a \in ColumnArgs :
           /\ layout' = add_column(layout, a[1], a[2], a[3], a[4], a[5])
           /\ last' = Call("add_column", LayoutRef, a, "", None)
    /\ UNCHANGED <<pool, gen, pure>>

\* FlowText(width, align, margins=margins, render=render)
NewFlowText ==
    /\ Building
    /\ Len(pool) < MaxParagraphs
    /\ \E a \in FlowTextArgs :
           /\ pool' = Append(pool, FlowText(a[1], a[2], a[3], a[4]))
           /\ last' = Call("FlowText", Ref("pool", Len(pool) + 1, 0), a,
                           "", None)
    /\ UNCHANGED <<layout, gen, pure>>

\* layout.place(x, y, align)
LayoutPlace ==
    /\ Quiet
    /\ \E p \in PlacePoints, align \in PlaceAligns :
           LET r == layout_place(layout, p[1], p[2], align)
           IN  /\ layout' = r.obj
               /\ last' = Call("layout_place", LayoutRef,
                               <<p[1], p[2], align>>, r.exc, None)
    /\ gen' = Replaced(gen)
    /\ UNCHANGED <<pool, pure>>

\* c.place(x, y) on a column or a FlowText: Container.place
ContainerPlace ==
    /\ Quiet
    /\ \E r \in Refs \ {LayoutRef}, p \in PlacePoints :
           LET W == World(layout, pool)
               res == place(Get(W, r), p[1], p[2])
               W1 == Put(W, r, res.obj)
           IN  /\ layout' = W1.layout
               /\ pool' = W1.pool
               /\ last' = Call("place", r, p, res.exc, None)
    /\ gen' = Replaced(gen)
    /\ UNCHANGED pure

\* c.final_location() on any container
FinalLocation ==
    /\ Quiet
    /\ \E r \in Refs :
           LET res == final_location(Get(World(layout, pool), r))
           IN  last' = Call("final_location", r, <<>>, res.exc, res.val)
    /\ UNCHANGED <<layout, pool, gen, pure>>

\* c.render() on any container: the call returns a generator, nothing of
\* the body of render runs before the first next(); gen holds the container,
\* the suspended frames, the values yielded so far, the exception that
\* ended the generator ("" while it has not ended) and, in prev, the values
\* the generator before it yielded when that one ran to its end on the same
\* container and nothing has been placed since
RenderCall ==
    /\ NotDraining
    /\ \E r \in Refs :
           /\ gen' = Some([ref |-> r, frames |-> <<Frame(r, "start", 0)>>,
                           ops |-> <<>>, ended |-> "",
                           prev |-> IF IsNone(gen) THEN None
                                    ELSE IF /\ Val(gen).ref = r
                                            /\ Val(gen).ended = "StopIteration"
                                    THEN Some(Val(gen).ops)
                                    ELSE None])
           /\ last' = Call("render", r, <<>>, "", None)
    /\ UNCHANGED <<layout, pool, pure>>

\* next() on the generator render() returned
RenderNext ==
    /\ ~IsNone(gen)
    /\ UNCHANGED pure
    /\ LET g == Val(gen)
       IN  IF g.frames = <<>>
           THEN /\ last' = Call("next", g.ref, <<>>, "StopIteration", None)
                /\ UNCHANGED <<layout, pool, gen, pure>>
           ELSE LET res == Resume(World(layout, pool), g.frames)
                IN  /\ layout' = res.W.layout
                    /\ pool' = res.W.pool
                    /\ gen' = Some([ref |-> g.ref, frames |-> res.frames,
                                    ops |-> g.ops \o res.val,
                                    ended |-> res.exc, prev |-> g.prev])
                    /\ last' = Call("next", g.ref, <<>>, res.exc, res.val)

\* column.append_paragraphs(paragraphs) with the first k objects of the pool
ColumnAppendParagraphs ==
    /\ Building
    /\ \E i \in 1..Len(layout.columns), k \in 0..Len(pool) :
           LET ps == SubSeq(pool, 1, k)
               r == column_append_paragraphs(layout.columns[i], ps)
           IN  /\ layout' = [layout EXCEPT !.columns[i] = r.obj]
               /\ last' = Call("column_append_paragraphs",
                               Ref("column", i, 0),
                               <<layout.columns[i].paragraphs, ps>>,
                               r.exc, r.val)
    /\ UNCHANGED <<pool, gen, pure>>

\* layout.append_paragraphs(paragraphs) with the first k objects of the pool
LayoutAppendParagraphs ==
    /\ Building
    /\ \E k \in 0..Len(pool) :
           LET ps == SubSeq(pool, 1, k)
               r == layout_append_paragraphs(layout, ps)
           IN  /\ layout' = r.obj
               /\ last' = Call("layout_append_paragraphs", LayoutRef,
                               <<ps>>, r.exc, None)
    /\ UNCHANGED <<pool, gen, pure>>

\* column.clone_empty() on a column of the layout: the clone is returned to
\* the caller, the layout is left as it is; reading a margin of a column
\* without margins raises TypeError
CloneEmpty ==
    /\ Building
    /\ \E i \in 1..Len(layout.columns) :
           LET c == layout.columns[i]
           IN  last' = IF IsNone(c.margins)
                       THEN Call("clone_empty", Ref("column", i, 0), <<>>,
                                 "TypeError", None)
                       ELSE Call("clone_empty", Ref("column", i, 0), <<>>,
                                 "", Some(clone_empty(c)))
    /\ UNCHANGED <<layout, pool, gen, pure>>

\* the alignment codes a caller passes to FlowText
AlignCodes == (0 - 1)..5

\* the arguments <<width, align, margins, render>> of FlowText while
\* building: every alignment code; the paragraphs of alignment 4 have the
\* total height 10, those of alignment 0 the total height 5, the others 0
BuildFlowTextArgs ==
    {<<6, a, CASE a = 4 -> Some(<<5, 0>>)
               [] a = 0 -> Some(<<3, 0, 2, 0>>)
               [] OTHER -> None,
       None>> : a \in AlignCodes}

\* FlowText(width, align, margins=margins, render=render) with any
\* alignment code: the object is kept when the constructor returns
BuildFlowText ==
    /\ Building
    /\ Len(pool) < MaxBuildParagraphs
    /\ \E a \in BuildFlowTextArgs :
           LET r == FlowTextInit(a[1], a[2], a[3], a[4])
           IN  /\ pool' = IF r.exc = "" THEN Append(pool, r.val) ELSE pool
               /\ last' = Call("FlowText", Ref("pool", Len(pool) + 1, 0), a,
                               r.exc, None)
    /\ UNCHANGED <<layout, gen, pure>>

\* the raw content given to append_content: two words that do not fit one
\* line of width 6, and three words of which two fit with room left
ContentArgs ==
    {<<ContentCell("Text", 4, 2, "word"), Glue("Space", 2, 2),
       ContentCell("Text", 4, 2, "word")>>,
     <<ContentCell("Text", 2, 2, "word"), Glue("Space", 1, 1),
       ContentCell("Text", 2, 2, "word"), Glue("Space", 0, 1),
       ContentCell("Fraction", 4, 4, "word")>>}

\* the height arguments of distribute_content
HeightBudgets == {None, Some(4)}

\* p.append_content(content) on the first FlowText, once
AppendContent ==
    /\ Building
    /\ pool # <<>>
    /\ pool[1].cells = <<>>
    /\ \E c \in ContentArgs :
           /\ pool' = [pool EXCEPT ![1] = append_content(@, c)]
           /\ last' = Call("append_content", Ref("pool", 1, 0), <<c>>,
                           "", None)
    /\ UNCHANGED <<layout, gen, pure>>

\* p.distribute_content(height) on a FlowText; args = <<height, the raw
\* cells before the call>>
DistributeContent ==
    /\ Building
    /\ \E i \in 1..Len(pool), h \in HeightBudgets :
           LET r == distribute_content(pool[i], h)
           IN  /\ pool' = [pool EXCEPT ![i] = r.obj]
               /\ last' = Call("distribute_content", Ref("pool", i, 0),
                               <<h, pool[i].cells>>, r.exc, r.val)
    /\ UNCHANGED <<layout, gen, pure>>

\* ------------------------------------------------------- specifications

\* the record of a call on the glue cell: the operation, its arguments and
\* the value returned
GlueCall(op, args, val) == [op |-> op, args |-> args, val |-> val]

\* the widths and minimum widths a caller passes to a glue cell
GlueWidths == (0 - 1)..MaxGlueWidth

\* a glue cell of any class constructed with any width and minimum width
GlueInit ==
    \E t \in glue_types, w \in GlueWidths, mw \in GlueWidths :
        /\ glue = Glue(t, w, mw)
        /\ glue_last = GlueCall("Glue", <<w, mw>>, None)

\* glue.resize(width)
Resize ==
    /\ \E w \in GlueWidths :
           /\ glue' = resize(glue, w)
           /\ glue_last' = GlueCall("resize", <<w>>, None)
    /\ UNCHANGED <<mvars, avars, nvars, cvars, xvars>>

\* glue.to_space() on a NonBreakingSpace: the Space is returned
ToSpace ==
    /\ glue.type = "NonBreakingSpace"
    /\ glue_last' = GlueCall("to_space", <<>>, Some(to_space(glue)))
    /\ UNCHANGED <<glue, mvars, avars, nvars, cvars, xvars>>

\* --------------------------------------------------- extension dictionary

\* _xdict as a handle (1st loading stage) and as the Dictionary (2nd)
Handle == Some("str")
Resolved == Some("Dictionary")

\* the Dictionary object: whether it is alive, whether the entity database
\* stores it under its handle, and how often destroy() was called on it, by
\* anyone and by the extension dictionary
NewDictionary(stored) ==
    [is_alive |-> TRUE, stored |-> stored, destroyed |-> 0, by_xdict |-> 0]

\* Dictionary.destroy()
dictionary_destroy(d) ==
    [d EXCEPT !.is_alive = FALSE, !.destroyed = @ + 1]

\* doc.entitydb.get(handle): the Dictionary, or None for an unknown handle
entitydb_get(d) == IF d.stored THEN Resolved ELSE None

\* ExtensionDict.is_alive
is_alive(x, d) == ~IsNone(x)

\* ExtensionDict.destroy: [xdict, dictionary] after the call
xdict_destroy(x, d) ==
    IF x = Resolved /\ d.is_alive
    THEN [xdict |-> None,
          dictionary |-> [dictionary_destroy(d) EXCEPT !.by_xdict = @ + 1]]
    ELSE [xdict |-> None, dictionary |-> d]

\* the record of a call on the extension dictionary: the operation, _xdict
\* before the call, the exception raised and the value returned
XdictCall(op, before, exc, val) ==
    [op |-> op, before |-> before, exc |-> exc, val |-> val]

\* ExtensionDict(handle), ExtensionDict(dictionary) or ExtensionDict.new
XdictInit ==
    /\ xdict \in {Handle, Resolved}
    /\ \E stored \in BOOLEAN : dictionary = NewDictionary(stored)
    /\ xdict_last = XdictCall("init", None, "", None)

\* xdict.load_resources(doc)
LoadResources ==
    /\ IF xdict = Handle
       THEN /\ xdict' = entitydb_get(dictionary)
            /\ xdict_last' = XdictCall("load_resources", xdict, "", None)
       ELSE /\ xdict' = xdict
            /\ xdict_last' = XdictCall("load_resources", xdict,
                                       "AssertionError", None)
    /\ UNCHANGED <<dictionary, mvars, avars, nvars, cvars, gvars>>

\* xdict.dictionary
GetDictionary ==
    /\ xdict_last' = IF xdict = Resolved
                     THEN XdictCall("dictionary", xdict, "", xdict)
                     ELSE XdictCall("dictionary", xdict, "AssertionError",
                                    None)
    /\ UNCHANGED <<xdict, dictionary, mvars, avars, nvars, cvars, gvars>>

\* xdict.is_alive
IsAlive ==
    /\ xdict_last' = XdictCall("is_alive", xdict, "",
                               is_alive(xdict, dictionary))
    /\ UNCHANGED <<xdict, dictionary, mvars, avars, nvars, cvars, gvars>>

\* xdict.destroy()
XdictDestroy ==
    /\ LET r == xdict_destroy(xdict, dictionary)
       IN  /\ xdict' = r.xdict
           /\ dictionary' = r.dictionary
    /\ xdict_last' = XdictCall("destroy", xdict, "", None)
    /\ UNCHANGED <<mvars, avars, nvars, cvars, gvars>>

\* dictionary.destroy() by another holder of the Dictionary object
DictionaryDestroy ==
    /\ dictionary.destroyed < MaxDestroyCalls
    /\ dictionary' = dictionary_destroy(dictionary)
    /\ xdict_last' = XdictCall("dictionary_destroy", xdict, "", None)
    /\ UNCHANGED <<xdict, mvars, avars, nvars, cvars, gvars>>

\* the values of the variables a specification does not use
XdictIdle ==
    /\ xdict = None
    /\ dictionary = NewDictionary(FALSE)
    /\ xdict_last = XdictCall("init", None, "", None)
GlueIdle == glue = Glue("Space", 0, 0) /\ glue_last = GlueCall("Glue", <<0, 0>>, None)
MarginsIdle == margins = None /\ resolved = Pending
AnchorIdle == anchor = <<1, 0, 0>> /\ location = Pending
NormalizeIdle == cells = <<>> /\ normalized = Pending
ContainersIdle ==
    /\ layout = Layout(0, None, None, None)
    /\ pool = <<>>
    /\ gen = None
    /\ last = Call("init", LayoutRef, <<>>, "", None)

\* the containers: a layout, its columns and the FlowText objects of the
\* caller, under every call the caller can make
Init ==
    ContainersInit /\ MarginsIdle /\ AnchorIdle /\ NormalizeIdle /\ GlueIdle
    /\ XdictIdle
Next ==
    \/ AddColumn
    \/ NewFlowText
    \/ LayoutPlace
    \/ ContainerPlace
    \/ FinalLocation
    \/ RenderCall
    \/ RenderNext
    \/ ColumnAppendParagraphs
    \/ LayoutAppendParagraphs
Spec == Init /\ [][Next]_vars

\* resolve_margins on every margin argument
InitMargins ==
    MarginsInit /\ AnchorIdle /\ NormalizeIdle /\ ContainersIdle /\ GlueIdle
    /\ XdictIdle
NextMargins == ResolveMargins
SpecMargins == InitMargins /\ [][NextMargins]_vars

\* insert_location on every anchor argument
InitAnchor ==
    AnchorInit /\ MarginsIdle /\ NormalizeIdle /\ ContainersIdle /\ GlueIdle
    /\ XdictIdle
NextAnchor == InsertLocation
SpecAnchor == InitAnchor /\ [][NextAnchor]_vars

\* the building calls only: columns are added, FlowText objects are
\* constructed and paragraphs are appended; nothing is placed or rendered
InitBuild ==
    ContainersInit /\ MarginsIdle /\ AnchorIdle /\ NormalizeIdle /\ GlueIdle
    /\ XdictIdle
NextBuild ==
    \/ AddColumn
    \/ BuildFlowText
    \/ ColumnAppendParagraphs
    \/ LayoutAppendParagraphs
SpecBuild == InitBuild /\ [][NextBuild]_vars

\* the paragraphs only: FlowText objects are constructed, given raw content
\* and distributed
InitParagraph ==
    ContainersInit /\ MarginsIdle /\ AnchorIdle /\ NormalizeIdle /\ GlueIdle
    /\ XdictIdle
NextParagraph ==
    \/ BuildFlowText
    \/ AppendContent
    \/ DistributeContent
SpecParagraph == InitParagraph /\ [][NextParagraph]_vars

\* placing and rendering of a layout and its columns: columns are added,
\* the layout and the columns are placed and rendered
InitRender ==
    ContainersInit /\ MarginsIdle /\ AnchorIdle /\ NormalizeIdle /\ GlueIdle
    /\ XdictIdle
NextRender ==
    \/ AddColumn
    \/ LayoutPlace
    \/ ContainerPlace
    \/ FinalLocation
    \/ RenderCall
    \/ RenderNext
SpecRender == InitRender /\ [][NextRender]_vars

\* the overflow of a layout: columns are added, FlowText objects are
\* constructed and appended to the layout, and a column is cloned
InitOverflow ==
    ContainersInit /\ MarginsIdle /\ AnchorIdle /\ NormalizeIdle /\ GlueIdle
    /\ XdictIdle
NextOverflow ==
    \/ AddColumn
    \/ BuildFlowText
    \/ LayoutAppendParagraphs
    \/ CloneEmpty
SpecOverflow == InitOverflow /\ [][NextOverflow]_vars

\* a glue cell under resize and to_space
InitGlue ==
    GlueInit /\ MarginsIdle /\ AnchorIdle /\ NormalizeIdle /\ ContainersIdle
    /\ XdictIdle
NextGlue ==
    \/ Resize
    \/ ToSpace
SpecGlue == InitGlue /\ [][NextGlue]_vars

\* an extension dictionary and its Dictionary object under every call
InitXdict ==
    XdictInit /\ MarginsIdle /\ AnchorIdle /\ NormalizeIdle /\ ContainersIdle
    /\ GlueIdle
NextXdict ==
    \/ LoadResources
    \/ GetDictionary
    \/ IsAlive
    \/ XdictDestroy
    \/ DictionaryDestroy
SpecXdict == InitXdict /\ [][NextXdict]_vars

\* appending to a layout: columns are added, FlowText objects are
\* constructed and appended to the layout
InitAppend ==
    ContainersInit /\ MarginsIdle /\ AnchorIdle /\ NormalizeIdle /\ GlueIdle
    /\ XdictIdle
NextAppend ==
    \/ AddColumn
    \/ BuildFlowText
    \/ LayoutAppendParagraphs
SpecAppend == InitAppend /\ [][NextAppend]_vars

\* normalize_cells on every cell sequence
InitNormalize ==
    NormalizeInit /\ MarginsIdle /\ AnchorIdle /\ ContainersIdle /\ GlueIdle
    /\ XdictIdle
NextNormalize == NormalizeCells
SpecNormalize == InitNormalize /\ [][NextNormalize]_vars

\* ---------------------------------------------------------------- claims

\* C1: resolve_margins expands 1, 2, 3 or 4 values CSS-style into
\* (top, right, bottom, left): [a] gives (a,a,a,a), [a,b] gives (a,b,a,b),
\* [a,b,c] gives (a,b,c,b) and [a,b,c,d] gives (a,b,c,d).
C1_MarginsExpandCssStyle ==
    (resolved # Pending /\ ~IsNone(margins) /\ Len(Val(margins)) \in 1..4) =>
        LET s == Val(margins)
            n == Len(s)
        IN  resolved.val = Some(CASE n = 1 -> <<s[1], s[1], s[1], s[1]>>
                                  [] n = 2 -> <<s[1], s[2], s[1], s[2]>>
                                  [] n = 3 -> <<s[1], s[2], s[3], s[2]>>
                                  [] n = 4 -> <<s[1], s[2], s[3], s[4]>>)

\* C1 witness: three values with top # right have been resolved
C1_Witness ==
    /\ resolved # Pending
    /\ ~IsNone(margins)
    /\ Len(Val(margins)) = 3
    /\ Val(margins)[1] # Val(margins)[2]

\* C2: resolve_margins always returns four values, and (0,0,0,0) for an
\* absent argument and for an empty sequence.
C2_MarginsAlwaysResolved ==
    resolved # Pending =>
        /\ ~IsNone(resolved.val)
        /\ Len(Val(resolved.val)) = 4
        /\ margins \in {None, Some(<<>>)} =>
               resolved.val = Some(<<0, 0, 0, 0>>)

\* C3: for every anchor code a in 1..9, insert_location(a, width, height)
\* is (-c*width/2, r*height/2) with r = (a-1) div 3 and c = (a-1) mod 3;
\* for width 10 and height 20, anchor 1 gives (0,0), anchor 5 gives (-5,10)
\* and anchor 9 gives (-10,20).
C3_AnchorOffsets ==
    location # Pending =>
        LET a == anchor[1]
            r == (a - 1) \div 3
            c == (a - 1) % 3
        IN  /\ a \in 1..9 =>
                location.val = <<-((c * anchor[2]) \div 2),
                                 (r * anchor[3]) \div 2>>
            /\ anchor = <<1, 10, 20>> => location.val = <<0, 0>>
            /\ anchor = <<5, 10, 20>> => location.val = <<-5, 10>>
            /\ anchor = <<9, 10, 20>> => location.val = <<-10, 20>>

\* C3 witness: the middle-center offset of a 10 by 20 box has been computed
C3_Witness == location # Pending /\ anchor = <<5, 10, 20>>

\* two content cells next to each other in a cell sequence
HasAdjacentContent(cs) ==
    \E i \in 1..(Len(cs) - 1) :
        cs[i].type \in content_types /\ cs[i + 1].type \in content_types

\* C4: normalize_cells fails with ValueError exactly when the input holds
\* two content cells that are adjacent; for every other input it returns.
C4_FailsExactlyOnAdjacentContent ==
    normalized # Pending =>
        /\ normalized.exc \in {"", "ValueError"}
        /\ normalized.exc = "ValueError" <=> HasAdjacentContent(cells)

\* C4 witness: an input with a soft hyphen and two adjacent content cells
\* after it has been refused
C4_Witness ==
    /\ normalized.exc = "ValueError"
    /\ Len(cells) >= 3
    /\ cells[1].type = "SoftHyphen"
    /\ HasAdjacentContent(cells)

\* C5: a sequence normalize_cells returns holds no two adjacent content
\* cells, also after soft hyphens and pending glue have been dropped.
C5_NoAdjacentContentInResult ==
    normalized.exc = "" => ~HasAdjacentContent(normalized.val)

\* C5 witness: a result with two content cells from whose input a soft
\* hyphen between these cells has been dropped
C5_Witness ==
    /\ normalized.exc = ""
    /\ \E i, j \in 1..Len(cells) :
           /\ i + 1 < j
           /\ cells[i].type \in content_types
           /\ cells[j].type \in content_types
           /\ cells[i + 1].type = "SoftHyphen"
           /\ \A k \in 1..Len(normalized.val) : normalized.val[k].id # i + 1

\* C6: normalization is idempotent: normalizing a returned sequence returns
\* the same sequence, cell for cell.
C6_NormalizeIdempotent ==
    normalized.exc = "" => normalize_cells(normalized.val) = normalized

\* C6 witness: a non-empty result that differs from its input
C6_Witness ==
    /\ normalized.exc = ""
    /\ normalized.val # <<>>
    /\ normalized.val # cells

\* C7: appending one Space to a cell sequence does not change the outcome
\* of normalize_cells: both fail, or both return the same sequence.
C7_TrailingSpaceIgnored ==
    normalized # Pending =>
        normalize_cells(Append(cells, Cell("Space", Len(cells) + 1)))
            = normalized

\* C7 witness: a sequence ending in content and a soft hyphen was normalized
C7_Witness ==
    /\ normalized.exc = ""
    /\ Len(cells) >= 2
    /\ cells[Len(cells)].type = "SoftHyphen"
    /\ cells[Len(cells) - 1].type \in content_types

\* the container the last call was made on
Target == Get(World(layout, pool), last.ref)

\* the renderer calls made by the generator of the last render() call
DrawOps == IF IsNone(gen) THEN <<>> ELSE Val(gen).ops

\* C8: on a container that has never been placed, final_location() fails
\* with ValueError and render() fails with ValueError, neither call invokes
\* a renderer; after place(x, y) has returned, final_location() is (x, y).
C8_UnplacedCallsFail ==
    /\ (last.op \in {"final_location", "render"} /\ ~is_placed(Target)) =>
           last.exc = "ValueError" /\ DrawOps = <<>>
    /\ (last.op = "place" /\ last.exc = "") =>
           final_location(Target) = Return(last.args)
    /\ (last.op = "layout_place" /\ last.exc = "" /\ last.args[3] = 1) =>
           final_location(Target) = Return(<<last.args[1], last.args[2]>>)

\* C9: every container has total_width = content_width + left_margin +
\* right_margin and total_height = content_height + top_margin +
\* bottom_margin, in every state add_column, append_paragraphs and place
\* lead to.
C9_TotalSizeAdditive ==
    \A r \in Refs :
        LET o == Get(World(layout, pool), r)
        IN  /\ WidthDefined(o)
            /\ HeightDefined(o)
            /\ total_width(o)
                   = content_width(o) + left_margin(o) + right_margin(o)
            /\ total_height(o)
                   = content_height(o) + top_margin(o) + bottom_margin(o)

\* C10: append_paragraphs on a column of flexible height returns an empty
\* remainder and leaves the column with its old paragraphs followed by the
\* given ones, in the given order.
C10_FlexColumnAppendsAll ==
    (last.op = "column_append_paragraphs" /\ has_flex_height(Target)) =>
        /\ last.exc = ""
        /\ last.val = <<>>
        /\ Target.paragraphs = last.args[1] \o last.args[2]

\* C11: append_paragraphs on a column of fixed height H loses no paragraph:
\* the paragraphs of the column followed by the remainder it returns are its
\* old paragraphs followed by the given ones; the used content height stays
\* within H, and a paragraph is left over only when it would exceed H.
C11_FixedColumnKeepsAll ==
    (/\ last.op = "column_append_paragraphs"
     /\ ~has_flex_height(Target)
     /\ last.exc = "") =>
        /\ Target.paragraphs \o last.val = last.args[1] \o last.args[2]
        /\ used_content_height(Target) <= Val(Target.content_height)
        /\ last.val # <<>> =>
               used_content_height(Target) + total_height(last.val[1])
                   > Val(Target.content_height)

\* every column of the layout has a fixed height, and there is one
FixedColumns(l) ==
    /\ l.columns # <<>>
    /\ \A i \in 1..Len(l.columns) : ~has_flex_height(l.columns[i])

\* the paragraphs of all columns, in column order
RECURSIVE AllParagraphs(_, _)
AllParagraphs(columns, i) ==
    IF i > Len(columns) THEN <<>>
    ELSE columns[i].paragraphs \o AllParagraphs(columns, i + 1)

\* the sequence ps ends the sequence qs, a paragraph compared without the
\* lines its distribution made
EndsWith(qs, ps) ==
    /\ Len(ps) <= Len(qs)
    /\ \A k \in 1..Len(ps) :
           [qs[Len(qs) - Len(ps) + k] EXCEPT !.lines = <<>>]
               = [ps[k] EXCEPT !.lines = <<>>]

\* C12: Layout.append_paragraphs on a layout of columns of fixed height
\* returns without error with every given paragraph in some column; on one
\* column of height 10 and paragraphs of total height 25, none higher than
\* 10, it leaves the layout with exactly 3 columns.
C12_OverflowCreatesColumns ==
    [][(last'.op = "layout_append_paragraphs" /\ FixedColumns(layout)) =>
          LET ps == last'.args[1]
          IN  /\ last'.exc = ""
              /\ EndsWith(AllParagraphs(layout'.columns, 1), ps)
              /\ (/\ Len(layout.columns) = 1
                  /\ layout.columns[1].content_height = Some(10)
                  /\ \A k \in 1..Len(ps) : total_height(ps[k]) <= 10
                  /\ SumTotalHeight(ps, 1) = 25) =>
                     Len(layout'.columns) = 3
      ]_vars

\* C14: constructing a FlowText fails with ValueError exactly when the
\* alignment code is outside 0..4; for 0, 1, 2, 3 and 4 the constructor
\* returns an object that stores the code.
C14_AlignmentChecked ==
    last.op = "FlowText" =>
        /\ last.exc \in {"", "ValueError"}
        /\ last.exc = "ValueError" <=> last.args[2] \notin 0..4
        /\ last.exc = "" => Target.align = last.args[2]

\* C14 witness: after a FlowText with alignment 4 was constructed, the
\* constructor has refused the alignment 5
C14_Witness ==
    /\ last.op = "FlowText"
    /\ last.exc = "ValueError"
    /\ last.args[2] = 5
    /\ Len(pool) >= 1
    /\ pool[1].align = 4

\* the content cells of a cell sequence, in order
ContentOf(cs) == SelectSeq(cs, LAMBDA c : c.type \in content_types)

\* the cells of the lines from line i on, in order
RECURSIVE LineCells(_, _)
LineCells(lines, i) ==
    IF i > Len(lines) THEN <<>>
    ELSE lines[i].cells \o LineCells(lines, i + 1)

\* C15: distribute_content with a finite height budget raises no error and
\* drops nothing: the content cells of the lines it made followed by those
\* of the remainder it returns are the raw content cells of the paragraph,
\* each once and in order.
C15_BudgetKeepsEveryCell ==
    (last.op = "distribute_content" /\ ~IsNone(last.args[1])) =>
        /\ last.exc = ""
        /\ ContentOf(LineCells(Target.lines, 1)) \o ContentOf(last.val)
               = ContentOf(last.args[2])

\* the sum of the widths of the cells from cell i on
RECURSIVE SumWidth(_, _)
SumWidth(cs, i) ==
    IF i > Len(cs) THEN 0 ELSE cs[i].width + SumWidth(cs, i + 1)

\* the glue cells of a cell sequence, in order
GlueOf(cs) == SelectSeq(cs, LAMBDA c : c.type \in glue_types)

\* C16: distribute_content on a FlowText of alignment 4 puts its raw
\* content into lines; on every line but the last the glue widths sum to
\* the usable width minus the content widths and no glue is narrower than
\* its min_width; the glue of the last line keeps its width.
C16_JustifiedLinesFill ==
    (/\ last.op = "distribute_content"
     /\ Target.align = 4
     /\ last.args[2] # <<>>) =>
        LET lines == Target.lines
            n == Len(lines)
        IN  /\ n >= 1
            /\ \A k \in 1..(n - 1) :
                   /\ SumWidth(GlueOf(lines[k].cells), 1)
                          = content_width(Target)
                                - SumWidth(ContentOf(lines[k].cells), 1)
                   /\ \A j \in 1..Len(lines[k].cells) :
                          lines[k].cells[j].type \in glue_types =>
                              lines[k].cells[j].width
                                  >= lines[k].cells[j].min_width
            /\ \E i \in 1..Len(last.args[2]) :
                   lines[n].cells
                       = SubSeq(last.args[2], i, Len(last.args[2]))

\* C17: Layout.place(x, y, anchor) with an anchor code outside 1..9 raises
\* an error, and a layout that was not placed before the call is not placed
\* after it.
C17_BadAnchorRejected ==
    [][(last'.op = "layout_place" /\ last'.args[3] \notin 1..9) =>
          /\ last'.exc # ""
          /\ ~is_placed(layout) => ~is_placed(layout')
      ]_vars

\* the cell c is in the sequence cs
Retained(cs, c) == \E j \in 1..Len(cs) : cs[j] = c

\* C18: of a run of two or more SoftHyphen cells between two content cells
\* normalize_cells retains exactly one cell, the first of the run.
C18_SoftHyphenRunKeepsFirst ==
    normalized.exc = "" =>
        \A p, q \in 2..(Len(cells) - 1) :
            (/\ p < q
             /\ \A k \in p..q : cells[k].type = "SoftHyphen"
             /\ cells[p - 1].type \in content_types
             /\ cells[q + 1].type \in content_types) =>
                {k \in p..q : Retained(normalized.val, cells[k])} = {p}

\* every SoftHyphen of the sequence cs stands between two content cells
SoftHyphensBetweenContent(cs) ==
    \A j \in 1..Len(cs) :
        cs[j].type = "SoftHyphen" =>
            /\ 1 < j
            /\ j < Len(cs)
            /\ cs[j - 1].type \in content_types
            /\ cs[j + 1].type \in content_types

\* the SoftHyphen cells of cs at the start, at the end or next to a cell
\* of one of the given classes
SoftHyphensNextTo(cs, types) ==
    {i \in 1..Len(cs) :
        /\ cs[i].type = "SoftHyphen"
        /\ IF i = 1 \/ i = Len(cs) THEN TRUE
           ELSE cs[i - 1].type \in types \/ cs[i + 1].type \in types}

\* C19: in a sequence normalize_cells returns every SoftHyphen stands
\* between two content cells, and a SoftHyphen that is at the start, at the
\* end or next to glue in the input is not retained.
C19_SoftHyphenBetweenContent ==
    normalized.exc = "" =>
        /\ SoftHyphensBetweenContent(normalized.val)
        /\ \A i \in SoftHyphensNextTo(cells, glue_types) :
               ~Retained(normalized.val, cells[i])

\* C19 as amended: in a sequence normalize_cells returns every SoftHyphen
\* stands between two content cells, and a SoftHyphen that is at the start,
\* at the end or next to glue other than a SoftHyphen in the input is not
\* retained.
C19_SoftHyphenBetweenContent_Amended ==
    normalized.exc = "" =>
        /\ SoftHyphensBetweenContent(normalized.val)
        /\ \A i \in SoftHyphensNextTo(cells, glue_types \ {"SoftHyphen"}) :
               ~Retained(normalized.val, cells[i])

\* C19 witness: a result that retains a SoftHyphen, from an input that
\* began with another one
C19_Witness ==
    /\ normalized.exc = ""
    /\ Len(cells) >= 4
    /\ cells[1].type = "SoftHyphen"
    /\ \E j \in 1..Len(normalized.val) : normalized.val[j].type = "SoftHyphen"

\* the containers with a renderer in the tree of the container r names: the
\* container itself first, then those of each child, in child order
RECURSIVE RenderOrder(_, _), ChildrenRenderOrder(_, _, _)
RenderOrder(W, r) ==
    (IF IsNone(Get(W, r).render) THEN <<>> ELSE <<r>>)
        \o ChildrenRenderOrder(W, r, 1)
ChildrenRenderOrder(W, r, k) ==
    IF k > Len(Children(Get(W, r))) THEN <<>>
    ELSE RenderOrder(W, Child(r, k)) \o ChildrenRenderOrder(W, r, k + 1)

\* the background of the placed container r names: its renderer called on
\* the bounds from the anchor (x, y) over the total width and height
FullBounds(W, r) ==
    LET o == Get(W, r)
        x == Val(o.final_x)
        y == Val(o.final_y)
    IN  [ref |-> r, renderer |-> Val(o.render), left |-> x, top |-> y,
         right |-> x + content_width(o) + left_margin(o) + right_margin(o),
         bottom |-> y - (content_height(o) + top_margin(o)
                             + bottom_margin(o))]

\* C20: the draw operations the generator of render() has yielded are the
\* backgrounds, over the full bounds, of the containers with a renderer:
\* the container rendered first, then those of each child in child order,
\* one child after the other; a container without renderer yields none;
\* when the generator has run to its end all of them have been yielded.
C20_RenderOrder ==
    ~IsNone(gen) =>
        LET g == Val(gen)
            W == World(layout, pool)
            order == RenderOrder(W, g.ref)
        IN  /\ Len(g.ops) <= Len(order)
            /\ \A k \in 1..Len(g.ops) : g.ops[k] = FullBounds(W, order[k])
            /\ g.ended = "StopIteration" => Len(g.ops) = Len(order)

\* C20 witness: the generator of the layout has run to its end and has
\* yielded the background of the layout and of one of its two columns
C20_Witness ==
    /\ ~IsNone(gen)
    /\ Val(gen).ended = "StopIteration"
    /\ Val(gen).ref = LayoutRef
    /\ Len(layout.columns) = 2
    /\ Len(Val(gen).ops) = 2
    /\ Val(gen).ops[1].ref = LayoutRef

\* the advance of the cursor of Layout.place_content before column i: the
\* total widths and gutters of the columns before it
RECURSIVE SumAdvance(_, _)
SumAdvance(columns, i) ==
    IF i <= 1 THEN 0
    ELSE SumAdvance(columns, i - 1)
             + total_width(columns[i - 1]) + columns[i - 1].gutter

\* the container o and all its descendants are placed where the cursor of
\* place_content puts them: a column at the layout's x plus left margin
\* plus the advance, and at the layout's y minus top margin; a paragraph at
\* the column's x plus left margin, and at the column's y minus top margin
\* minus the total heights of the paragraphs before it
RECURSIVE CursorPlaced(_)
CursorPlaced(o) ==
    /\ is_placed(o)
    /\ WidthDefined(o)
    /\ HeightDefined(o)
    /\ \A i \in 1..Len(Children(o)) :
           LET c == Children(o)[i]
               x == Val(o.final_x) + left_margin(o)
               y == Val(o.final_y) - top_margin(o)
           IN  /\ CursorPlaced(c)
               /\ IF o.cls = "Layout"
                  THEN /\ c.final_x = Some(x + SumAdvance(o.columns, i))
                       /\ c.final_y = Some(y)
                  ELSE /\ c.final_x = Some(x)
                       /\ c.final_y =
                              Some(y - SumTotalHeight(
                                           SubSeq(Children(o), 1, i - 1), 1))

\* C21: rendering moves nothing: a next() on the generator of a container
\* that is placed, with all its descendants, where place puts them leaves
\* every container as it is; and a generator that has run to its end has
\* yielded the sequence the generator before it yielded on the same
\* container.
C21_RenderMovesNothing ==
    /\ [][(/\ last'.op = "next"
            /\ ~IsNone(gen)
            /\ CursorPlaced(Get(World(layout, pool), Val(gen).ref))) =>
              layout' = layout /\ pool' = pool]_vars
    /\ [](IF IsNone(gen) THEN TRUE
          ELSE (Val(gen).ended = "StopIteration" /\ ~IsNone(Val(gen).prev))
                   => Val(gen).ops = Val(Val(gen).prev))

\* C21 witness: the layout with two columns has been rendered to the end a
\* second time, each time yielding two backgrounds or more
C21_Witness ==
    /\ ~IsNone(gen)
    /\ Val(gen).ref = LayoutRef
    /\ Val(gen).ended = "StopIteration"
    /\ ~IsNone(Val(gen).prev)
    /\ Len(Val(gen).ops) >= 2
    /\ Len(layout.columns) = 2

\* the total widths of the columns from column i on, with the gutter of
\* every column but the last
RECURSIVE SumColumnWidths(_, _)
SumColumnWidths(columns, i) ==
    IF i > Len(columns) THEN 0
    ELSE total_width(columns[i])
             + (IF i < Len(columns) THEN columns[i].gutter ELSE 0)
             + SumColumnWidths(columns, i + 1)

\* C22: a layout with columns reports as content_width the sum of the total
\* widths of its columns plus the gutter of every column but the last, and
\* as content_height the largest total height of its columns; a layout
\* without columns reports the width it was constructed with and the height
\* it was constructed with, 0 when none was given.
C22_LayoutSizeAggregated ==
    /\ WidthDefined(layout)
    /\ HeightDefined(layout)
    /\ IF layout.columns # <<>>
       THEN /\ content_width(layout) = SumColumnWidths(layout.columns, 1)
            /\ \A i \in 1..Len(layout.columns) :
                   content_height(layout) >= total_height(layout.columns[i])
            /\ \E i \in 1..Len(layout.columns) :
                   content_height(layout) = total_height(layout.columns[i])
       ELSE /\ content_width(layout) = layout.reference_column_width
            /\ content_height(layout)
                   = (IF IsNone(layout.content_height) THEN 0
                      ELSE Val(layout.content_height))

\* C23: a place that has returned leaves the container at its anchor and
\* every descendant placed by the cursor: Layout.place(x, y, anchor) anchors
\* the layout at (x, y) plus the offset of the anchor, column i at the
\* layout's x plus left margin plus the total widths and gutters of the
\* columns before it and at the layout's y minus top margin; a column
\* anchors paragraph i at its x plus left margin and its y minus top margin
\* minus the total heights of the paragraphs before it.
C23_PlaceByCursor ==
    /\ (last.op = "layout_place" /\ last.exc = "") =>
           LET a == last.args[3]
               col == (a - 1) % 3
               row == (a - 1) \div 3
           IN  /\ CursorPlaced(layout)
               /\ a \in 1..9 =>
                      /\ 2 * (Val(layout.final_x) - last.args[1])
                             = -(col * total_width(layout))
                      /\ 2 * (Val(layout.final_y) - last.args[2])
                             = row * total_height(layout)
    /\ (last.op = "place" /\ last.exc = "") =>
           /\ CursorPlaced(Target)
           /\ final_location(Target) = Return(last.args)

\* C23 witness: a layout with margins and two columns has been placed by
\* its bottom right corner
C23_Witness ==
    /\ last.op = "layout_place"
    /\ last.exc = ""
    /\ last.args[3] = 9
    /\ Len(layout.columns) = 2
    /\ left_margin(layout) = 8
    /\ layout.columns[1].gutter = 2

\* ------------------------------------------------------------------ C24

\* C24: the column clone_empty returns for a column has the same content
\* width, the same height setting (a fixed max_content_height stays the same
\* fixed value, a flexible height stays flexible), the same gutter, the same
\* four margins and the same renderer, and no paragraphs.
C24_CloneKeepsSettings ==
    (last.op = "clone_empty" /\ last.exc = "") =>
        LET c == Target
            e == Val(last.val)
        IN  /\ content_width(e) = content_width(c)
            /\ has_flex_height(e) = has_flex_height(c)
            /\ e.content_height = c.content_height
            /\ e.gutter = c.gutter
            /\ e.margins = c.margins
            /\ e.render = c.render
            /\ e.paragraphs = <<>>

\* ------------------------------------------------------------------ C25

\* C25: a glue cell of any class has width >= min_width and height 0 in every
\* state: constructed with width w and minimum m its width is max(w, m);
\* after resize(w) its width is max(w, min_width), the minimum as before; the
\* Space to_space() returns for a NonBreakingSpace has its width and its
\* minimum width and is itself within its minimum.
C25_GlueWidthBounded ==
    /\ Glue_total_width(glue) >= glue.min_width
    /\ Glue_total_height(glue) = 0
    /\ glue_last.op = "Glue" =>
           /\ glue.min_width = glue_last.args[2]
           /\ Glue_total_width(glue) = Max(glue_last.args[1], glue_last.args[2])
    /\ glue_last.op = "resize" =>
           Glue_total_width(glue) = Max(glue_last.args[1], glue.min_width)
    /\ glue_last.op = "to_space" =>
           LET sp == Val(glue_last.val)
           IN  /\ sp.type = "Space"
               /\ Glue_total_width(sp) = Glue_total_width(glue)
               /\ sp.min_width = glue.min_width
               /\ Glue_total_width(sp) >= sp.min_width
               /\ Glue_total_height(sp) = 0

\* a width below the minimum was asked for and the cell is at its minimum
C25_Witness ==
    /\ glue_last.op = "resize"
    /\ glue_last.args[1] < glue.min_width
    /\ Glue_total_width(glue) = glue.min_width
    /\ glue.type = "Tab"

\* ------------------------------------------------------------------ C26

\* C26: is_alive returns True exactly when the underlying Dictionary is not
\* deleted: it returns False after ExtensionDict.destroy() and False once
\* the Dictionary was destroyed directly, and True for a resolved Dictionary
\* that is alive; destroy() never fails, destroys a resolved alive
\* Dictionary, and calls its destroy() at most once however often it runs.
C26_IsAliveTracksDictionary ==
    /\ xdict_last.op = "is_alive" =>
           /\ IsNone(xdict) => xdict_last.val = FALSE
           /\ (xdict = Resolved /\ ~dictionary.is_alive) =>
                  xdict_last.val = FALSE
           /\ (xdict = Resolved /\ dictionary.is_alive) =>
                  xdict_last.val = TRUE
    /\ xdict_last.op = "destroy" =>
           /\ xdict_last.exc = ""
           /\ ~is_alive(xdict, dictionary)
           /\ xdict_last.before = Resolved => ~dictionary.is_alive
    /\ dictionary.by_xdict <= 1

\* ------------------------------------------------------------------ C27

\* C27: the current-column cursor of the layout never decreases; when
\* append_paragraphs returns normally on a layout that has a column, the
\* cursor is the index of an existing column and, if paragraphs were given,
\* the last of them is the last paragraph of that column.
C27_CursorTracksLastParagraph ==
    /\ [][layout'.current_column >= layout.current_column]_vars
    /\ [][(/\ last'.op = "layout_append_paragraphs"
           /\ last'.exc = ""
           /\ layout.columns # <<>>) =>
              LET ps == last'.args[1]
                  k == layout'.current_column
              IN  /\ 0 <= k
                  /\ k < Len(layout'.columns)
                  /\ ps # <<>> =>
                         EndsWith(layout'.columns[k + 1].paragraphs,
                                  <<ps[Len(ps)]>>)
      ]_vars

\* ------------------------------------------------------------------ C28

\* C28: Layout.append_paragraphs on a layout without columns fails with the
\* ValueError 'no column exist' when given at least one paragraph and returns
\* normally when given none; in both cases the layout is as before: no
\* column, the cursor unchanged.
C28_NoColumnAppendFails ==
    [][(last'.op = "layout_append_paragraphs" /\ layout.columns = <<>>) =>
          /\ last'.exc = (IF last'.args[1] = <<>> THEN "" ELSE "ValueError")
          /\ layout'.columns = <<>>
          /\ layout'.current_column = layout.current_column
          /\ layout' = layout
      ]_vars

\* a call with two paragraphs on a layout without columns has failed
C28_Witness ==
    /\ last.op = "layout_append_paragraphs"
    /\ Len(last.args[1]) = 2
    /\ last.exc = "ValueError"
    /\ layout.columns = <<>>

====
